---------------------------- MODULE Spec2Model ----------------------------
(* A state-machine model of src/train.py: the command-line entry point,   *)
(* the image loader, the label extractor, the dataset split, the training *)
(* loop with its EarlyStopping / ModelCheckpoint callbacks, the confusion *)
(* matrix and the misclassified-image report.                             *)
(*                                                                        *)
(* Strings are sequences of one-character strings, so that str.split and  *)
(* indexing are computed and not assumed.  An image is identified by the  *)
(* position of its file in all_image_paths.  A validation loss is a       *)
(* natural number (a fixed-point reading of the float).  The library      *)
(* calls (Path.glob, train_test_split, fit_generator, EarlyStopping,      *)
(* ModelCheckpoint, confusion_matrix) are modelled at their call sites    *)
(* with the arguments the script passes.  The order in which os.scandir   *)
(* returns the entries of a directory belongs to the filesystem: it is    *)
(* part of the input tree.                                                *)
EXTENDS Integers, Sequences, FiniteSets

\* ------------------------------------------------------------------------
\* Bounds of the model and constants of the program
\* ------------------------------------------------------------------------

MaxNameLen == 3        \* longest enumerated file name (preparation runs)
MaxFiles == 4          \* largest enumerated directory tree (preparation runs)
MaxTree == 64          \* size of the largest generated directory tree
MaxClasses == 2        \* classes of a generated directory tree
MaxStride == 3         \* sparsest pattern of prediction errors
MaxPeriod == 12        \* slowest improvement of the validation loss

Epochs == 100          \* epochs=100
Patience == 10         \* EarlyStopping(patience=10)
BatchSize == 32        \* batch_size=32, steps_per_epoch = n // 32
MaxWrong == 20         \* wrong_pictures_idx[:20]
SummaryStep == 100     \* tf.summary.image(..., step=100)
TestPercent == 33      \* test_size=0.33
Inf == 1000000         \* np.Inf, the callbacks' initial best

\* ------------------------------------------------------------------------
\* Strings
\* ------------------------------------------------------------------------

Alphabet == {"a", "_", "."}

Digits == <<"0", "1", "2", "3", "4", "5", "6", "7", "8", "9">>

Last(s) == s[Len(s)]

Range(s) == {s[i] : i \in 1..Len(s)}

SeqSum(s) ==
  LET F[i \in 0..Len(s)] == IF i = 0 THEN 0 ELSE F[i - 1] + s[i]
  IN F[Len(s)]

\* Position of the first occurrence of ch in s, 0 when there is none.
FirstIndex(s, ch) ==
  IF \E i \in 1..Len(s) : s[i] = ch
  THEN CHOOSE i \in 1..Len(s) : s[i] = ch /\ \A j \in 1..(i - 1) : s[j] # ch
  ELSE 0

\* Position of the last occurrence of ch in s, 0 when there is none.
LastIndex(s, ch) ==
  IF \E i \in 1..Len(s) : s[i] = ch
  THEN CHOOSE i \in 1..Len(s) : s[i] = ch /\ \A j \in (i + 1)..Len(s) : s[j] # ch
  ELSE 0

\* str.split(ch): the pieces of s between the occurrences of ch.
RECURSIVE Split(_, _)
Split(s, ch) ==
  LET i == FirstIndex(s, ch)
  IN IF i = 0 THEN <<s>>
     ELSE <<SubSeq(s, 1, i - 1)>> \o Split(SubSeq(s, i + 1, Len(s)), ch)

S_images == <<"i", "m", "a", "g", "e", "s">>
S_catA == <<"c", "a", "t", "A">>
S_catB == <<"c", "a", "t", "B">>
S_catC == <<"c", "a", "t", "C">>
S_img_001_A_png == <<"i", "m", "g", "_", "0", "0", "1", "_", "A", ".", "p", "n", "g">>
S_img_002_B_png == <<"i", "m", "g", "_", "0", "0", "2", "_", "B", ".", "p", "n", "g">>

\* ------------------------------------------------------------------------
\* Paths and labels (train, lines 59-83)
\* ------------------------------------------------------------------------

\* A resolved path: the directories from the filesystem root down to the
\* file's parent, and the file name.
Path(dirs, name) == [dirs |-> dirs, name |-> name]

\* An entry of the tree under args.input_path for which is_file() holds:
\* a regular file, or a symbolic link to one (link holds the path the link
\* resolves to).
File(dirs, name) == [dirs |-> dirs, name |-> name, link |-> <<>>]

Link(dirs, name, target) == [dirs |-> dirs, name |-> name, link |-> <<target>>]

\* item.resolve(): the path itself, the target of a symbolic link.
Resolve(entry) ==
  IF entry.link = <<>> THEN Path(entry.dirs, entry.name) ELSE entry.link[1]

\* The directory d holds the entry p or is one of the directories above it.
Under(d, p) == Len(d) <= Len(p.dirs) /\ SubSeq(p.dirs, 1, Len(d)) = d

Permutations(n) ==
  {p \in [1..n -> 1..n] : \A i, j \in 1..n : i # j => p[i] # p[j]}

\* The elements of a set of numbers in increasing order.
Sorted(S) ==
  [k \in 1..Cardinality(S) |->
     CHOOSE x \in S : Cardinality({y \in S : y < x}) = k - 1]

\* The first position of a tree with an entry in or below directory d.
FirstBelow(tree, d) ==
  CHOOSE m \in 1..Len(tree) :
    /\ Under(d, tree[m])
    /\ \A l \in 1..(m - 1) : ~Under(d, tree[l])

\* The directories of a tree: the input directory (the empty sequence
\* stands for the top of the tree), the directories that hold an entry and
\* the directories between.
Dirs(tree) ==
  {<<>>} \cup UNION {{SubSeq(tree[i].dirs, 1, k) : k \in 0..Len(tree[i].dirs)} :
                       i \in 1..Len(tree)}

\* The subdirectories of directory d in the order os.scandir returns them.
\* The tree lists the entries of every directory in scandir order, a
\* subdirectory standing where its first entry stands.
SubDirs(tree, d) ==
  LET kids == {e \in Dirs(tree) : Len(e) = Len(d) + 1 /\ SubSeq(e, 1, Len(d)) = d}
      firsts == Sorted({FirstBelow(tree, e) : e \in kids})
  IN [k \in 1..Len(firsts) |-> SubSeq(tree[firsts[k]].dirs, 1, Len(d) + 1)]

\* The concatenation of a list of lists.
RECURSIVE Flatten(_)
Flatten(lists) ==
  IF lists = <<>> THEN <<>>
  ELSE Head(lists) \o Flatten(Tail(lists))

\* The interpreters the script runs under differ in how the "**" of
\* path.glob("**/*") walks the directories; the script names none.
Releases == {"3.11", "3.12", "3.13"}

\* pathlib up to Python 3.11: a directory, then each of its subdirectories
\* with everything below it, in scandir order.
RECURSIVE PreOrder(_, _)
PreOrder(tree, d) ==
  <<d>> \o Flatten([k \in 1..Len(SubDirs(tree, d)) |->
                      PreOrder(tree, SubDirs(tree, d)[k])])

\* pathlib of Python 3.12: the input directory, then, for every directory
\* in the order of PreOrder, its subdirectories in scandir order.
ByParent(tree) ==
  LET walk == PreOrder(tree, <<>>)
  IN <<<<>>>> \o Flatten([k \in 1..Len(walk) |-> SubDirs(tree, walk[k])])

\* pathlib of Python 3.13: the directory on top of the stack is taken off,
\* its subdirectories are listed in scandir order and put on the stack.
RECURSIVE Unstack(_, _)
Unstack(tree, stack) ==
  IF stack = <<>> THEN <<>>
  ELSE LET kids == SubDirs(tree, stack[Len(stack)])
       IN kids \o Unstack(tree, SubSeq(stack, 1, Len(stack) - 1) \o kids)

Stacked(tree) == <<<<>>>> \o Unstack(tree, <<<<>>>>)

\* The directories of a tree in the order "**" yields them.
Visits(tree, release) ==
  CASE release = "3.11" -> PreOrder(tree, <<>>)
    [] release = "3.12" -> ByParent(tree)
    [] release = "3.13" -> Stacked(tree)

\* The place of entry i in the walk of path.glob("**/*"), as a number
\* that grows along the walk: "**" yields the directories, "*" lists the
\* entries of each one in scandir order.
WalkKey(tree, release, i) ==
  LET visits == Visits(tree, release)
      place == CHOOSE k \in 1..Len(visits) : visits[k] = tree[i].dirs
  IN place * (Len(tree) + 1) + i

\* The entries of a tree in the order path.glob("**/*") meets them.
Walk(tree, release) ==
  LET keys == {<<WalkKey(tree, release, i), i>> : i \in 1..Len(tree)}
  IN [r \in 1..Len(tree) |->
        tree[(CHOOSE p \in keys :
                Cardinality({q \in keys : q[1] < p[1]}) = r - 1)[2]]]

\* Lines 59-64: [item.resolve() for item in path.glob("**/*") if
\* item.is_file()]
Glob(tree, release) ==
  LET items == Walk(tree, release)
  IN [r \in 1..Len(tree) |-> Resolve(items[r])]

\* The listings the script can get of a tree.
Globs(tree) == {Glob(tree, release) : release \in Releases}

\* pathlib.Path(path).parent.name: empty for a file in the filesystem root.
ParentName(path) == IF path.dirs = <<>> THEN <<>> ELSE Last(path.dirs)

\* pathlib.Path(path).name.split(".")[0].split("_")[-1]
ChineseLabelLastDot(path) ==
  LET parts == Split(path.name, ".")
  IN Last(Split(IF Len(parts) > 1
                THEN SubSeq(path.name, 1, Len(path.name) - Len(Last(parts)) - 1)
                ELSE path.name, "_"))

ChineseLabel(path) == Last(Split(Split(path.name, ".")[1], "_"))

MnistLabel(path) == ParentName(path)

EveryType == {"mnist", "chinese", "cifar"}

\* The values of input_type with a branch of their own (lines 75-80).
KnownTypes == {"mnist", "chinese"}

\* Lines 75-80: the label list of a recognised input_type.
ExtractAll(type, paths) ==
  [i \in 1..Len(paths) |->
     IF type = "mnist" THEN MnistLabel(paths[i]) ELSE ChineseLabel(paths[i])]

\* The orders in which list(set(...)) may enumerate a set of labels.
Orders(S) ==
  {p \in [1..Cardinality(S) -> S] : \A i, j \in 1..Cardinality(S) : i # j => p[i] # p[j]}

\* Line 82: {label: idx for idx, label in enumerate(labels)}, as the items
\* of the dict in insertion order.
LabelIndexOf(labs) == [i \in 1..Len(labs) |-> [key |-> labs[i], val |-> i - 1]]

\* The item of the dict with a given key.
Lookup(index, label) ==
  (CHOOSE i \in 1..Len(index) : index[i].key = label)

\* label_index[label]
LookupShifted(index, label) == index[Lookup(index, label)].val + 1

LookupVal(index, label) == index[Lookup(index, label)].val

\* Line 83: np.array([label_index[label] for label in all_labels])
Encode(index, labs) == [i \in 1..Len(labs) |-> LookupVal(index, labs[i])]

Keys(index) == [i \in 1..Len(index) |-> index[i].key]

Values(index) == [i \in 1..Len(index) |-> index[i].val]

\* The labels of a list in order of first occurrence: one of Orders.
FirstOccurrences(labs) ==
  LET firsts == Sorted({i \in 1..Len(labs) : \A j \in 1..(i - 1) : labs[j] # labs[i]})
  IN [k \in 1..Len(firsts) |-> labs[firsts[k]]]

\* ------------------------------------------------------------------------
\* Dataset split (train, lines 93-95)
\* ------------------------------------------------------------------------

\* n_test = ceil(test_size * n_samples), with test_size = 0.33
TestSizeFloor(n) == (TestPercent * n) \div 100

TestSize(n) == (TestPercent * n + 99) \div 100

\* n_train = n_samples - n_test
TrainSize(n) == n - TestSize(n)

Identity(n) == [i \in 1..n |-> i]

\* rng.permutation(n_samples) of ShuffleSplit with random_state=0: the
\* shuffle np.random.RandomState(0) makes of 0..n-1, written from 1, for
\* the sample counts of the runs below.  Its first n_test entries are the
\* test part, the others the training part.
RngPermutation(n) ==
  CASE n = 0 ->
         <<>>
    [] n = 1 ->
         <<1>>
    [] n = 2 ->
         <<2, 1>>
    [] n = 3 ->
         <<3, 2, 1>>
    [] n = 4 ->
         <<3, 4, 2, 1>>
    [] n = 5 ->
         <<3, 1, 2, 4, 5>>
    [] n = 6 ->
         <<6, 3, 2, 4, 1, 5>>
    [] n = 48 ->
         <<30, 5, 27, 31, 33, 38, 35, 41, 8, 11, 12, 32, 34, 28, 48, 3,
         47, 19, 16, 29, 23, 17, 42, 21, 43, 9, 14, 26, 6, 18, 36, 15,
         39, 2, 13, 44, 25, 7, 24, 37, 22, 20, 10, 40, 46, 4, 1, 45>>
    [] n = 49 ->
         <<30, 5, 27, 31, 33, 38, 35, 41, 8, 11, 12, 32, 34, 28, 49, 3,
         47, 19, 16, 29, 23, 17, 42, 21, 43, 9, 14, 26, 6, 18, 36, 15,
         39, 2, 13, 44, 25, 7, 24, 37, 22, 20, 10, 40, 46, 4, 1, 48, 45>>
    [] n = 64 ->
         <<46, 30, 44, 62, 35, 34, 32, 41, 27, 63, 23, 3, 12, 29, 55, 5,
         11, 36, 53, 47, 31, 8, 15, 28, 64, 56, 42, 43, 59, 19, 61, 33,
         16, 6, 17, 21, 57, 9, 14, 26, 38, 18, 49, 52, 58, 39, 2, 13, 50,
         25, 7, 24, 37, 51, 22, 20, 10, 40, 60, 4, 1, 54, 48, 45>>
    [] n = 65 ->
         <<46, 30, 44, 63, 35, 34, 32, 41, 27, 64, 23, 3, 12, 29, 55, 5,
         11, 36, 53, 47, 31, 8, 15, 28, 65, 56, 42, 43, 59, 19, 62, 33,
         16, 6, 17, 21, 57, 9, 14, 26, 38, 18, 49, 52, 58, 39, 2, 13, 50,
         25, 7, 24, 37, 51, 22, 20, 10, 40, 61, 60, 4, 1, 54, 48, 45>>

\* ind_test = permutation[:n_test]
TestPart(perm, arr) == [k \in 1..TestSize(Len(arr)) |-> arr[perm[k]]]

\* ind_train = permutation[n_test:(n_test + n_train)]
TrainPart(perm, arr) ==
  [k \in 1..TrainSize(Len(arr)) |-> arr[perm[TestSize(Len(arr)) + k]]]

\* ------------------------------------------------------------------------
\* Training loop (train, lines 98-121)
\* ------------------------------------------------------------------------

\* The validation losses of a run.  The loss reaches a new minimum every
\* sc.p epochs up to epoch sc.c and never after; every other epoch lies
\* sc.d above the minimum reached so far.
Level(sc, e) ==
  LET m == IF e < sc.c THEN e ELSE sc.c
      n == IF m < 1 THEN 1 ELSE m
  IN Epochs + 1 - ((n - 1) \div sc.p)

IsDrop(sc, e) == (e = 1) \/ (e <= sc.c /\ (e - 1) % sc.p = 0)

LossAt(sc, e) == Level(sc, e) + (IF IsDrop(sc, e) THEN 0 ELSE sc.d)

Scenario(p, c, d) == [p |-> p, c |-> c, d |-> d]

\* EarlyStopping: monitor_op(current - min_delta, best) with np.less
EsImproved(current, best) == current < best

\* EarlyStopping: self.wait >= self.patience
EsExhaustedLate(wait) == wait > Patience

EsExhausted(wait) == wait >= Patience

\* ModelCheckpoint(save_best_only=True): monitor_op(current, self.best)
CpImprovedOrEqual(current, best) == current <= best

CpImproved(current, best) == current < best

\* steps_per_epoch=X_train.shape[0] // 32
StepsPerEpoch(x_train) == Len(x_train) \div BatchSize

\* ------------------------------------------------------------------------
\* Evaluation and report (train, lines 124-147)
\* ------------------------------------------------------------------------

\* np.argmax(model.predict(X_test), axis=-1): one class of 0..k-1 per test
\* sample.  Stride s > 0 misclassifies every s-th sample, by r classes.
Predictions(y, k) ==
  {[i \in 1..Len(y) |-> IF s > 0 /\ i % s = 0 THEN (y[i] + r) % k ELSE y[i]] :
     s \in 0..MaxStride, r \in 0..(k - 1)}

\* sklearn's confusion_matrix(y_true, y_pred, labels=labs): row r is the
\* true class labs[r], column c the predicted class labs[c].
ConfusionTransposed(y_true, y_predicted, labs) ==
  [r \in 1..Len(labs) |-> [c \in 1..Len(labs) |->
     Cardinality({i \in 1..Len(y_true) :
                    y_true[i] = labs[c] /\ y_predicted[i] = labs[r]})]]

Confusion(y_true, y_predicted, labs) ==
  [r \in 1..Len(labs) |-> [c \in 1..Len(labs) |->
     Cardinality({i \in 1..Len(y_true) :
                    y_true[i] = labs[r] /\ y_predicted[i] = labs[c]})]]

\* pd.DataFrame(cm, columns=label_index.keys(), index=label_index.keys())
DataFrame(data, columns, index) ==
  [data |-> data, columns |-> columns, index |-> index]

\* [idx for idx in range(len(y_pred)) if y_pred[idx] != y_test[idx]]
\* (idx counts from 0: it is position idx + 1 of the model's sequences)
WrongPictures(y_predicted, y_true) ==
  Sorted({i - 1 : i \in {j \in 1..Len(y_predicted) : y_predicted[j] # y_true[j]}})

\* wrong_pictures_idx[:20]
FirstWrongOneMore(idx) ==
  IF Len(idx) <= MaxWrong + 1 THEN idx ELSE SubSeq(idx, 1, MaxWrong + 1)

FirstWrong(idx) == IF Len(idx) <= MaxWrong THEN idx ELSE SubSeq(idx, 1, MaxWrong)

\* [key for key, val in label_index.items() if val == v]
KeysOfVal(index, v) ==
  LET hit(item) == item.val = v
      items == SelectSeq(index, hit)
  IN [i \in 1..Len(items) |-> items[i].key]

\* f"true {true_label}: predicted {predicted_label}"
Title(true_label, predicted_label) ==
  [true |-> true_label, predicted |-> predicted_label]

\* ------------------------------------------------------------------------
\* State
\* ------------------------------------------------------------------------

VARIABLES
  pc,                 \* position of the script
  err,                \* the uncaught exception that ended the run, or "none"
  input_type,         \* args.input_type
  input_tree,         \* the entries under args.input_path, in scandir order
  val_losses,         \* the validation losses the run will measure
  fs,                 \* directories and files written so far
  defined,            \* local names of train() bound so far
  all_image_paths,
  all_images,
  all_labels,         \* the label strings (lines 75-80)
  labels,
  label_index,
  all_labels_arr,     \* all_labels after line 83: the integer labels
  X_train, X_test, y_train, y_test,
  epoch,              \* epochs completed by fit_generator
  model,              \* in-memory weights: the epoch that last updated them
  es_wait, es_best,   \* EarlyStopping.wait, EarlyStopping.best
  stop_training,      \* model.stop_training
  cp_best,            \* ModelCheckpoint.best
  ckpt,               \* weights stored in params.hdf5: their epoch, 0 if none
  y_pred,
  predicted_with,     \* weights model.predict ran with
  predict_calls,      \* calls of model.predict
  cm,
  wrong_pictures_idx,
  reported,           \* iterations of the report loop completed
  events              \* summaries written by tf.summary.image, in order

vars ==
  <<pc, err, input_type, input_tree, val_losses, fs, defined, all_image_paths,
    all_images, all_labels, labels, label_index, all_labels_arr, X_train,
    X_test, y_train, y_test, epoch, model, es_wait, es_best, stop_training,
    cp_best, ckpt, y_pred, predicted_with, predict_calls, cm,
    wrong_pictures_idx, reported, events>>

prepVars ==
  <<defined, all_image_paths, all_images, all_labels, labels, label_index,
    all_labels_arr>>

splitVars == <<X_train, X_test, y_train, y_test>>

fitVars == <<epoch, model, es_wait, es_best, stop_training, cp_best, ckpt>>

evalVars ==
  <<y_pred, predicted_with, predict_calls, cm, wrong_pictures_idx, reported,
    events>>

inputVars == <<input_type, input_tree, val_losses>>

\* ------------------------------------------------------------------------
\* Inputs
\* ------------------------------------------------------------------------

Types == {"mnist", "chinese", "cifar"}

AllNames ==
  (UNION {[1..n -> Alphabet] : n \in 1..MaxNameLen}) \ {<<".">>, <<".", ".">>}

PrepDirs == {<<>>, <<S_images>>, <<S_images, S_catA>>}

AllPaths == {File(d, n) : d \in PrepDirs, n \in AllNames}

Candidates ==
  << File(<<S_images, S_catA>>, S_img_001_A_png),
     File(<<S_images, S_catB>>, S_img_002_B_png),
     File(<<S_images, S_catA>>, <<"j", "_", "B", ".", "p">>),
     File(<<S_images>>, <<"k", "_", ".", "p">>),
     File(<<S_images, S_catB>>, <<"a", ".", "b", "_", "c">>) >>

S_y_A_p == <<"y", "_", "A", ".", "p">>
S_x_B_p == <<"x", "_", "B", ".", "p">>
S_l_C_p == <<"l", "_", "C", ".", "p">>
S_other == <<"o", "t", "h", "e", "r">>

\* Trees with a symbolic link to a regular file: to a file of the
\* directory above, to a file of a sibling directory, to a file outside
\* the input directory.
LinkTrees ==
  { << File(<<S_images>>, S_y_A_p),
       File(<<S_images, S_catA>>, S_x_B_p),
       Link(<<S_images, S_catA>>, S_l_C_p, Path(<<S_images>>, S_y_A_p)) >>,
    << File(<<S_images, S_catA>>, S_x_B_p),
       File(<<S_images, S_catB>>, S_y_A_p),
       Link(<<S_images, S_catA>>, S_l_C_p, Path(<<S_images, S_catB>>, S_y_A_p)) >>,
    << File(<<S_images, S_catA>>, S_x_B_p),
       Link(<<S_images, S_catA>>, S_l_C_p, Path(<<S_other>>, S_y_A_p)) >> }

\* A tree with directories below directories, where the walks of the
\* releases differ: catB/catB/x_B.p, catB/img_002_B.png, catA/catB/y_A.p,
\* catA/l_C.p under images.
NestedTree ==
  << File(<<S_images, S_catB, S_catB>>, S_x_B_p),
     File(<<S_images, S_catB>>, S_img_002_B_png),
     File(<<S_images, S_catA, S_catB>>, S_y_A_p),
     File(<<S_images, S_catA>>, S_l_C_p) >>

Reverse(s) == [i \in 1..Len(s) |-> s[Len(s) + 1 - i]]

\* The scandir orders a set of entries can be found in.
Shuffles(tree) ==
  {[i \in 1..Len(tree) |-> tree[p[i]]] : p \in Permutations(Len(tree))}

\* The tree of the candidates picked by a set of positions.
SubTree(S) == [k \in 1..Cardinality(S) |-> Candidates[Sorted(S)[k]]]

PrepTrees ==
  UNION {Shuffles(tree) : tree \in
    {SubTree(S) : S \in {T \in SUBSET (1..Len(Candidates)) : Cardinality(T) <= MaxFiles}}
    \cup {<<p>> : p \in AllPaths}
    \cup {<<p, Candidates[k]>> : p \in AllPaths, k \in 1..2}
    \cup LinkTrees
    \cup {NestedTree}}

ClassDirs == <<S_catA, S_catB, S_catC>>

ClassChars == <<"A", "B", "C">>

\* The class directory, of k, that holds file i of n.
ClassOf(i, n, k) == (((i - 1) * k) \div n) + 1

\* A tree of n files in k class directories of equal size, one directory
\* after the other: images/catA/01_A.p, ..., images/catB/25_B.p, ...
GenTree(n, k) ==
  [i \in 1..n |->
     File(<<S_images, ClassDirs[ClassOf(i, n, k)]>>,
          <<Digits[(i \div 10) + 1], Digits[(i % 10) + 1], "_",
            ClassChars[ClassOf(i, n, k)], ".", "p">>)]

\* The smallest tree whose training part fills one batch per epoch.
MinTree == 48

\* Generated trees, found by scandir in either direction.
MainTrees ==
  LET trees == {GenTree(n, k) : n \in {0, 1, MaxFiles, MinTree, MaxTree},
                                k \in 1..MaxClasses}
  IN trees \cup {Reverse(tree) : tree \in trees}

MainScenarios ==
  { Scenario(1, 0, 0), Scenario(1, Epochs, 0), Scenario(Patience, Epochs, 1),
    Scenario(1, Epochs - Patience, 0) }

\* The last improvement falls early, in the middle, around the last epoch
\* that leaves room for a full run of stale epochs, or at the very end.
Cuts ==
  (0..MaxPeriod) \cup {Epochs \div 2}
  \cup ((Epochs - Patience - 1)..(Epochs - Patience + 1)) \cup {Epochs}

TrainScenarios ==
  {Scenario(p, c, d) : p \in 1..MaxPeriod, c \in Cuts, d \in 0..1}

\* The state of a run that has not started.
Fresh ==
  /\ err = "none"
  /\ fs = {}
  /\ defined = {}
  /\ all_image_paths = <<>>
  /\ all_images = <<>>
  /\ all_labels = <<>>
  /\ labels = <<>>
  /\ label_index = <<>>
  /\ all_labels_arr = <<>>
  /\ X_train = <<>> /\ X_test = <<>> /\ y_train = <<>> /\ y_test = <<>>

Untrained ==
  /\ epoch = 0
  /\ model = 0
  /\ es_wait = 0
  /\ es_best = Inf
  /\ stop_training = FALSE
  /\ cp_best = Inf
  /\ ckpt = 0

Unevaluated ==
  /\ y_pred = <<>>
  /\ predicted_with = 0
  /\ predict_calls = 0
  /\ cm = DataFrame(<<>>, <<>>, <<>>)
  /\ wrong_pictures_idx = <<>>
  /\ reported = 0
  /\ events = <<>>

\* A run of the whole script.
Init ==
  /\ pc = "main"
  /\ input_type \in Types
  /\ input_tree \in MainTrees
  /\ val_losses \in MainScenarios
  /\ Fresh /\ Untrained /\ Unevaluated

\* A run of the data preparation, over every short file name.
PrepInit ==
  /\ pc = "main"
  /\ input_type \in Types
  /\ input_tree \in PrepTrees
  /\ val_losses = Scenario(1, 0, 0)
  /\ Fresh /\ Untrained /\ Unevaluated

\* A run that has reached fit_generator on a tree of two classes whose
\* training part fills a batch, for every course of the loss.
TrainInit ==
  /\ pc = "fit"
  /\ input_type = "mnist"
  /\ input_tree \in {GenTree(MinTree, 2), Reverse(GenTree(MinTree, 2))}
  /\ err = "none"
  /\ fs = {"output_path", "log_path"}
  /\ defined = {"all_labels"}
  /\ all_image_paths \in Globs(input_tree)
  /\ all_images = Identity(Len(input_tree))
  /\ all_labels = ExtractAll(input_type, all_image_paths)
  /\ labels \in Orders(Range(all_labels))
  /\ label_index = LabelIndexOf(labels)
  /\ all_labels_arr = Encode(label_index, all_labels)
  /\ X_train = TrainPart(RngPermutation(Len(input_tree)), all_images)
  /\ X_test = TestPart(RngPermutation(Len(input_tree)), all_images)
  /\ y_train = TrainPart(RngPermutation(Len(input_tree)), all_labels_arr)
  /\ y_test = TestPart(RngPermutation(Len(input_tree)), all_labels_arr)
  /\ val_losses \in TrainScenarios
  /\ Untrained /\ Unevaluated

\* ------------------------------------------------------------------------
\* Steps of the script
\* ------------------------------------------------------------------------

\* __main__, lines 159-160: os.makedirs of the output and log directories.
MakeDirs ==
  /\ pc = "main"
  /\ fs' = fs \cup {"output_path", "log_path"}
  /\ pc' = "load"
  /\ UNCHANGED <<err, inputVars, prepVars, splitVars, fitVars, evalVars>>

\* train, lines 59-73: glob the tree, read and resize every file.
LoadImages ==
  /\ pc = "load"
  /\ \E listing \in Globs(input_tree) : all_image_paths' = listing
  /\ all_images' = Identity(Len(input_tree))
  /\ pc' = "labels"
  /\ UNCHANGED <<err, inputVars, fs, defined, all_labels, labels, label_index,
                 all_labels_arr, splitVars, fitVars, evalVars>>

\* train, lines 75-80: all_labels is assigned for a recognised input_type
\* and left unbound for any other.
ExtractLabels ==
  /\ pc = "labels"
  /\ IF input_type \in KnownTypes
     THEN /\ all_labels' = ExtractAll(input_type, all_image_paths)
          /\ defined' = defined \cup {"all_labels"}
     ELSE UNCHANGED <<all_labels, defined>>
  /\ pc' = "index"
  /\ UNCHANGED <<err, inputVars, fs, all_image_paths, all_images, labels,
                 label_index, all_labels_arr, splitVars, fitVars, evalVars>>

\* train, lines 81-83: the label list in the order of a set, the label
\* index, the integer labels.  Reading the unbound all_labels raises.
BuildLabelIndex ==
  /\ pc = "index"
  /\ IF "all_labels" \in defined
     THEN \E order \in Orders(Range(all_labels)) :
            /\ labels' = order
            /\ label_index' = LabelIndexOf(order)
            /\ all_labels_arr' = Encode(LabelIndexOf(order), all_labels)
            /\ pc' = "split"
            /\ err' = err
     ELSE /\ pc' = "error"
          /\ err' = "UnboundLocalError"
          /\ UNCHANGED <<labels, label_index, all_labels_arr>>
  /\ UNCHANGED <<inputVars, fs, defined, all_image_paths, all_images,
                 all_labels, splitVars, fitVars, evalVars>>

\* train, lines 93-95: train_test_split(test_size=0.33, random_state=0).
\* An empty training part raises ValueError.
SplitData ==
  /\ pc = "split"
  /\ IF TrainSize(Len(all_images)) = 0
     THEN /\ pc' = "error"
          /\ err' = "ValueError"
          /\ UNCHANGED splitVars
     ELSE LET perm == RngPermutation(Len(all_images))
          IN
            /\ X_train' = TrainPart(perm, all_images)
            /\ X_test' = TestPart(perm, all_images)
            /\ y_train' = TrainPart(perm, all_labels_arr)
            /\ y_test' = TestPart(perm, all_labels_arr)
            /\ pc' = "build"
            /\ err' = err
  /\ UNCHANGED <<inputVars, fs, prepVars, fitVars, evalVars>>

\* train, lines 98-111: the callbacks (best = np.Inf, wait = 0), the batch
\* generator and a freshly initialised model.
BuildModel ==
  /\ pc = "build"
  /\ epoch' = 0
  /\ model' = 0
  /\ es_wait' = 0
  /\ es_best' = Inf
  /\ stop_training' = FALSE
  /\ cp_best' = Inf
  /\ ckpt' = ckpt
  /\ pc' = "fit"
  /\ UNCHANGED <<err, inputVars, fs, prepVars, splitVars, evalVars>>

\* train, lines 114-121: one epoch of fit_generator.  The weights are
\* updated, the validation loss is measured, then the callbacks run in the
\* order [es, tb, cp]: EarlyStopping.on_epoch_end and
\* ModelCheckpoint.on_epoch_end (TensorBoard only appends to the log).
\* An epoch draws steps_per_epoch batches.
FitEpoch ==
  /\ pc = "fit"
  /\ StepsPerEpoch(X_train) >= 1
  /\ epoch < Epochs
  /\ ~stop_training
  /\ LET current == LossAt(val_losses, epoch + 1)
     IN /\ epoch' = epoch + 1
        /\ model' = epoch + 1
        /\ IF EsImproved(current, es_best)
           THEN /\ es_best' = current
                /\ es_wait' = 0
                /\ stop_training' = stop_training
           ELSE /\ es_best' = es_best
                /\ es_wait' = es_wait + 1
                /\ stop_training' = EsExhausted(es_wait + 1)
        /\ IF CpImproved(current, cp_best)
           THEN /\ cp_best' = current
                /\ ckpt' = epoch + 1
                /\ fs' = fs \cup {"params.hdf5"}
           ELSE UNCHANGED <<cp_best, ckpt, fs>>
  /\ UNCHANGED <<pc, err, inputVars, prepVars, splitVars, evalVars>>

\* fit_generator returns: all epochs ran, or a callback set stop_training.
FitReturn ==
  /\ pc = "fit"
  /\ StepsPerEpoch(X_train) >= 1
  /\ (epoch = Epochs \/ stop_training)
  /\ pc' = "evaluate"
  /\ UNCHANGED <<err, inputVars, fs, prepVars, splitVars, fitVars, evalVars>>

\* The exceptions a fit_generator call without batches ends in.
FitErrors == {"ValueError", "UnboundLocalError", "AttributeError"}

\* train, lines 114-121 with fewer than 32 training samples:
\* steps_per_epoch is 0 and the first epoch draws no batch.  The script
\* does not handle the case; the library ends the call in an exception
\* before an epoch completes, and which exception differs between its
\* releases: any of them may be the one that ends the run.
FitNoBatches ==
  /\ pc = "fit"
  /\ StepsPerEpoch(X_train) = 0
  /\ pc' = "error"
  /\ \E e \in FitErrors : err' = e
  /\ UNCHANGED <<inputVars, fs, prepVars, splitVars, fitVars, evalVars>>

\* The weights model.predict runs with: those in memory.
PredictWeightsReloaded == ckpt

PredictWeights == model

\* train, lines 124-127: predictions, confusion matrix, its csv file.
Evaluate ==
  /\ pc = "evaluate"
  /\ \E yp \in Predictions(y_test, Len(label_index)) :
       /\ y_pred' = yp
       /\ cm' = DataFrame(Confusion(y_test, yp, Values(label_index)),
                          Keys(label_index), Keys(label_index))
  /\ predicted_with' = PredictWeights
  /\ predict_calls' = predict_calls + 1
  /\ fs' = fs \cup {"confusion_matrix.csv"}
  /\ pc' = "collect"
  /\ UNCHANGED <<err, inputVars, prepVars, splitVars, fitVars,
                 wrong_pictures_idx, reported, events>>

\* train, lines 130-135: the summary writer, the misclassified positions.
CollectWrong ==
  /\ pc = "collect"
  /\ wrong_pictures_idx' = WrongPictures(y_pred, y_test)
  /\ fs' = fs \cup {"images"}
  /\ reported' = 0
  /\ pc' = "report"
  /\ UNCHANGED <<err, inputVars, prepVars, splitVars, fitVars, y_pred,
                 predicted_with, predict_calls, cm, events>>

\* The summary one iteration of the report loop writes (lines 138-147).
Summary(image_idx) ==
  [tag |-> Title(KeysOfVal(label_index, y_test[image_idx + 1]),
                 KeysOfVal(label_index, y_pred[image_idx + 1])),
   step |-> SummaryStep,
   image |-> X_test[image_idx + 1]]

\* train, lines 137-147: one iteration of the report loop.
ReportImage ==
  /\ pc = "report"
  /\ reported < Len(FirstWrong(wrong_pictures_idx))
  /\ events' = Append(events, Summary(FirstWrong(wrong_pictures_idx)[reported + 1]))
  /\ reported' = reported + 1
  /\ UNCHANGED <<pc, err, inputVars, fs, prepVars, splitVars, fitVars, y_pred,
                 predicted_with, predict_calls, cm, wrong_pictures_idx>>

\* The report loop is exhausted: train returns and the script ends.
ReportDone ==
  /\ pc = "report"
  /\ reported = Len(FirstWrong(wrong_pictures_idx))
  /\ pc' = "done"
  /\ UNCHANGED <<err, inputVars, fs, prepVars, splitVars, fitVars, evalVars>>

Next ==
  \/ MakeDirs
  \/ LoadImages
  \/ ExtractLabels
  \/ BuildLabelIndex
  \/ SplitData
  \/ BuildModel
  \/ FitEpoch
  \/ FitReturn
  \/ FitNoBatches
  \/ Evaluate
  \/ CollectWrong
  \/ ReportImage
  \/ ReportDone

PrepNext ==
  \/ MakeDirs
  \/ LoadImages
  \/ ExtractLabels
  \/ BuildLabelIndex
  \/ SplitData

TrainNext ==
  \/ FitEpoch
  \/ FitReturn

Spec == Init /\ [][Next]_vars

PrepSpec == PrepInit /\ [][PrepNext]_vars

\* The script is one sequential process: a step that can be taken is taken.
TrainSpec == TrainInit /\ [][TrainNext]_vars /\ WF_vars(TrainNext)

\* ------------------------------------------------------------------------
\* Properties of the data preparation (PrepSpec)
\* ------------------------------------------------------------------------

LabelsBound == "all_labels" \in defined

\* The resolved paths of the entries of the tree.
Resolved ==
  {IF input_tree[i].link = <<>>
   THEN [dirs |-> input_tree[i].dirs, name |-> input_tree[i].name]
   ELSE input_tree[i].link[1] : i \in 1..Len(input_tree)}

Encoded == LabelsBound /\ pc \notin {"main", "load", "labels", "index"}

NumClasses == Cardinality(Range(all_labels))

\* The part of a file name before its first dot (the whole name if none).
Stem(name) ==
  IF FirstIndex(name, ".") = 0 THEN name
  ELSE SubSeq(name, 1, FirstIndex(name, ".") - 1)

\* The files whose label is the empty string.
EmptyLabelCase(type, path) ==
  IF type = "mnist" THEN Len(path.dirs) = 0
  ELSE Len(Stem(path.name)) = 0 \/ Last(Stem(path.name)) = "_"

\* C1 as stated: in modes mnist and chinese every label string is non-empty
\* and every integer label lies in [0, num_classes).
C1_NonEmptyAndInRange ==
  (input_type \in {"mnist", "chinese"} /\ LabelsBound) =>
     /\ \A i \in 1..Len(all_labels) : all_labels[i] # <<>>
     /\ Encoded => \A i \in 1..Len(all_labels_arr) :
                     all_labels_arr[i] \in 0..(NumClasses - 1)

\* C1 as amended: every integer label lies in [0, num_classes) and is the
\* index of the file's own label string; a label string is empty exactly
\* for a file in the filesystem root (mnist) and for a file name whose part
\* before the first dot is empty or ends with an underscore (chinese),
\* the file being taken at its resolved path.
C1_InRangeAndEmptyCases ==
  (input_type \in {"mnist", "chinese"} /\ LabelsBound) =>
     /\ Len(all_labels) = Len(input_tree)
     /\ Range(all_image_paths) = Resolved
     /\ \A i \in 1..Len(all_labels) :
          (all_labels[i] = <<>>) <=> EmptyLabelCase(input_type, all_image_paths[i])
     /\ Encoded =>
          /\ Len(all_labels_arr) = Len(input_tree)
          /\ Len(label_index) = NumClasses
          /\ \A i \in 1..Len(all_labels_arr) :
               /\ all_labels_arr[i] \in 0..(NumClasses - 1)
               /\ \E k \in 1..Len(label_index) :
                    /\ label_index[k].key = all_labels[i]
                    /\ label_index[k].val = all_labels_arr[i]

\* C1, witness: a chinese-mode tree of two classes, one the empty label,
\* has been encoded.
C1_Witness ==
  /\ pc = "build"
  /\ input_type = "chinese"
  /\ NumClasses = 2
  /\ \E i \in 1..Len(all_labels) : all_labels[i] = <<>> /\ all_labels_arr[i] = 1

\* The end of the label as the claim words it: after the last underscore
\* of the file name, before its first dot.
NameBetween(name) ==
  SubSeq(name, LastIndex(name, "_") + 1,
         (IF FirstIndex(name, ".") = 0 THEN Len(name) + 1 ELSE FirstIndex(name, ".")) - 1)

\* After the last underscore of the stem (the whole stem if it has none).
StemSuffix(name) ==
  SubSeq(Stem(name), LastIndex(Stem(name), "_") + 1, Len(Stem(name)))

ImmediateParent(path) ==
  IF Len(path.dirs) = 0 THEN <<>> ELSE path.dirs[Len(path.dirs)]

\* C2 as stated: the mnist label is the parent directory's name and the
\* chinese label is what follows the last underscore of the file name and
\* precedes its first dot, for every file name.
C2_LabelBetweenLastUnderscoreAndFirstDot ==
  (input_type \in {"mnist", "chinese"} /\ LabelsBound) =>
     \A i \in 1..Len(all_labels) :
        all_labels[i] = IF input_type = "mnist"
                        THEN ImmediateParent(all_image_paths[i])
                        ELSE NameBetween(all_image_paths[i].name)

\* C2 as amended: the mnist label is the parent directory's name and the
\* chinese label is what follows the last underscore of the part of the
\* file name before its first dot (all of that part if it has no
\* underscore); img_001_A.png gives "A" and img_002_B.png gives "B".  The
\* listed paths are the resolved paths of the entries of the tree: a
\* symbolic link is labelled by the directory and the name of its target.
C2_LabelIsStemSuffix ==
  (input_type \in {"mnist", "chinese"} /\ LabelsBound) =>
     /\ Len(all_labels) = Len(input_tree)
     /\ Range(all_image_paths) = Resolved
     /\ \A i \in 1..Len(all_labels) :
          /\ all_labels[i] = IF input_type = "mnist"
                             THEN ImmediateParent(all_image_paths[i])
                             ELSE StemSuffix(all_image_paths[i].name)
          /\ (input_type = "chinese" /\ all_image_paths[i].name = S_img_001_A_png)
               => all_labels[i] = <<"A">>
          /\ (input_type = "chinese" /\ all_image_paths[i].name = S_img_002_B_png)
               => all_labels[i] = <<"B">>

\* C2, witness: labels were extracted in chinese mode from a name with an
\* underscore after its first dot, beside the example img_001_A.png.
C2_Witness ==
  /\ pc = "index"
  /\ input_type = "chinese"
  /\ Len(all_labels) = 2
  /\ LastIndex(all_image_paths[1].name, "_") > FirstIndex(all_image_paths[1].name, ".")
  /\ FirstIndex(all_image_paths[1].name, ".") > 1
  /\ all_labels[1] # <<>>
  /\ all_image_paths[2].name = S_img_001_A_png
  /\ all_labels[2] = <<"A">>

\* The least m with 100 * m >= 33 * n: ceil(0.33 * n).
CeilOfFraction(n) ==
  CHOOSE m \in 0..n : 100 * m >= TestPercent * n
                      /\ \A k \in 0..(m - 1) : 100 * k < TestPercent * n

\* C3: for N >= 2 samples the split succeeds; train and test are disjoint,
\* their union is the full sample set, |test| = ceil(0.33 * N), |train| =
\* N - |test|, every label stays with its own image, and 2 samples give
\* one training sample and one test sample.
C3_SplitPartitions ==
  /\ (pc = "error" /\ err = "ValueError") => Len(all_images) < 2
  /\ pc = "build" =>
       LET n == Len(all_images) IN
       /\ n >= 2
       /\ Range(X_train) \cap Range(X_test) = {}
       /\ Range(X_train) \cup Range(X_test) = Range(all_images)
       /\ Len(X_test) = CeilOfFraction(n)
       /\ Len(X_train) = n - Len(X_test)
       /\ Cardinality(Range(X_train)) = Len(X_train)
       /\ Cardinality(Range(X_test)) = Len(X_test)
       /\ Len(y_train) = Len(X_train) /\ Len(y_test) = Len(X_test)
       /\ \A k \in 1..Len(X_train) : y_train[k] = all_labels_arr[X_train[k]]
       /\ \A k \in 1..Len(X_test) : y_test[k] = all_labels_arr[X_test[k]]
       /\ n = 2 => (Len(X_train) = 1 /\ Len(X_test) = 1)

\* C3, witness: four samples of two classes were split two and two, the
\* test part holding both classes.
C3_Witness ==
  /\ pc = "build"
  /\ Len(all_images) = 4
  /\ Len(X_test) = 2 /\ Len(X_train) = 2
  /\ y_test[1] # y_test[2]

\* ------------------------------------------------------------------------
\* Properties of the training loop (TrainSpec)
\* ------------------------------------------------------------------------

\* Epoch j did not improve on the best validation loss seen before it.
Stale(j) == \E i \in 1..(j - 1) : LossAt(val_losses, i) <= LossAt(val_losses, j)

\* The Patience epochs up to and including epoch e were all stale.
StaleRun(e) ==
  /\ e >= Patience
  /\ \A j \in (e - Patience + 1)..e : Stale(j)

TrainingEnded == pc # "fit"

\* fit_generator has returned.
TrainingReturned == pc = "evaluate"

\* C4 as stated: training ends after at most 100 epochs, and it ends
\* before epoch 100 exactly when the validation loss has not improved for
\* 10 consecutive epochs.
C4_EarlyExactlyWhenStale ==
  /\ epoch <= Epochs
  /\ TrainingReturned => ((epoch < Epochs) <=> StaleRun(epoch))

\* Some epoch before the 100th completes 10 consecutive stale epochs.
EarlyStaleRun == \E e \in 1..(Epochs - 1) : StaleRun(e)

\* What holds of every state of the loop.  The stop flag is raised exactly
\* when the last 10 epochs were all stale.  fit_generator returns before
\* epoch 100 exactly when some epoch before the 100th completes a run of
\* 10 stale epochs, and then on the first such epoch; otherwise it returns
\* after epoch 100.
C4_Safety ==
  /\ epoch <= Epochs
  /\ stop_training <=> StaleRun(epoch)
  /\ es_wait < Patience => ~stop_training
  /\ TrainingReturned =>
       /\ (epoch < Epochs) <=> EarlyStaleRun
       /\ ~EarlyStaleRun => epoch = Epochs
       /\ EarlyStaleRun =>
            /\ StaleRun(epoch)
            /\ epoch >= Patience + 1
            /\ \A e \in 1..(epoch - 1) : ~StaleRun(e)

\* C4 as amended: training always ends, after at most 100 epochs; it ends
\* before epoch 100 exactly when an epoch before the 100th completes 10
\* consecutive epochs without improvement on the best validation loss (a
\* run of 10 completed by epoch 100 itself ends training after 100 epochs);
\* it never stops while fewer than 10 such epochs have elapsed.
C4_StopsOnTenStaleEpochs == [](C4_Safety) /\ <>(TrainingEnded)

\* C4, witness: training ended early, on the tenth stale epoch in a row.
C4_Witness ==
  /\ TrainingEnded
  /\ stop_training
  /\ epoch < Epochs
  /\ epoch > 2 * Patience
  /\ es_wait = Patience

\* Epoch k is the first epoch of 1..e with the lowest validation loss.
FirstBest(k, e) ==
  /\ k \in 1..e
  /\ \A j \in 1..e : LossAt(val_losses, k) <= LossAt(val_losses, j)
  /\ \A j \in 1..(k - 1) : LossAt(val_losses, j) > LossAt(val_losses, k)

\* C5: after every completed epoch params.hdf5 holds the model of the epoch
\* of minimum validation loss so far: the last epoch if its loss is
\* strictly lower than every earlier one, the earlier snapshot otherwise.
C5_CheckpointIsBestSoFar ==
  epoch >= 1 =>
     /\ "params.hdf5" \in fs
     /\ FirstBest(ckpt, epoch)
     /\ (ckpt = epoch) <=> ~Stale(epoch)
     /\ cp_best = LossAt(val_losses, ckpt)

\* C5, witness: an epoch that only equalled the best loss left the earlier
\* snapshot in place.
C5_Witness ==
  /\ epoch >= 3
  /\ ckpt > 1
  /\ ckpt < epoch
  /\ LossAt(val_losses, epoch) = LossAt(val_losses, ckpt)

\* ------------------------------------------------------------------------
\* Properties of the evaluation and the report (Spec)
\* ------------------------------------------------------------------------

Evaluated == pc \in {"collect", "report", "done"}

\* The label string of the samples whose integer label is v.
StringOf(v) ==
  all_labels[CHOOSE j \in 1..Len(all_labels_arr) : all_labels_arr[j] = v]

\* The test positions (from 1) of the misclassified samples.
Misclassified == {m \in 1..Len(y_test) : y_pred[m] # y_test[m]}

\* C6: the confusion matrix is square with one row and one column per
\* distinct label, row i and column i carry the label string of integer
\* index i, entry (t, p) counts the test samples of true index t predicted
\* p, and all entries sum to the size of the test set.
C6_ConfusionMatrix ==
  Evaluated =>
     /\ "confusion_matrix.csv" \in fs
     /\ Len(cm.data) = NumClasses
     /\ Len(cm.index) = NumClasses /\ Len(cm.columns) = NumClasses
     /\ \A t \in 0..(NumClasses - 1) :
          /\ Len(cm.data[t + 1]) = NumClasses
          /\ cm.index[t + 1] = StringOf(t)
          /\ cm.columns[t + 1] = StringOf(t)
          /\ \A p \in 0..(NumClasses - 1) :
               cm.data[t + 1][p + 1] =
                 Cardinality({m \in 1..Len(y_test) : y_test[m] = t /\ y_pred[m] = p})
     /\ SeqSum([t \in 1..Len(cm.data) |-> SeqSum(cm.data[t])]) = Len(y_test)

\* C6, witness: a matrix of two classes with unequal error counts.
C6_Witness ==
  /\ pc = "done"
  /\ Len(cm.data) = 2
  /\ cm.data[1][2] > cm.data[2][1]
  /\ cm.data[2][1] > 0
  /\ cm.data[1][1] > 0

\* C7: the report emits min(20, k) images for k misclassified test
\* samples: the j-th emitted image is the misclassified sample preceded by
\* exactly j - 1 misclassified samples, annotated with that sample's true
\* and predicted label strings; no correctly classified sample is emitted.
C7_ReportsFirstTwenty ==
  (pc \in {"report", "done"}) =>
     /\ Len(events) = reported
     /\ reported <= MaxWrong /\ reported <= Cardinality(Misclassified)
     /\ pc = "done" =>
          Len(events) = IF Cardinality(Misclassified) < MaxWrong
                        THEN Cardinality(Misclassified) ELSE MaxWrong
     /\ \A j \in 1..Len(events) :
          \E m \in Misclassified :
             /\ Cardinality({w \in Misclassified : w < m}) = j - 1
             /\ events[j].image = X_test[m]
             /\ events[j].tag.true = <<StringOf(y_test[m])>>
             /\ events[j].tag.predicted = <<StringOf(y_pred[m])>>

\* C7, witness: more than 20 samples were misclassified and 20 images
\* were emitted.
C7_Witness ==
  /\ pc = "done"
  /\ Cardinality(Misclassified) > MaxWrong
  /\ Len(events) = MaxWrong

\* C8: no two emitted images are written under the same (tag, step) key.
C8_DistinctSummaryKeys ==
  \A i, j \in 1..Len(events) :
     i # j => <<events[i].tag, events[i].step>> # <<events[j].tag, events[j].step>>

\* C9: for an input_type other than mnist and chinese no label list is
\* defined and the run ends in an uncaught error after the images are
\* loaded, before the split, the model build and any epoch; params.hdf5 and
\* confusion_matrix.csv are never written, the two directories are.
C9_UnknownTypeFailsBeforeSplit ==
  (input_type \notin {"mnist", "chinese"}) =>
     /\ "all_labels" \notin defined
     /\ all_labels = <<>>
     /\ pc \in {"main", "load", "labels", "index", "error"}
     /\ pc = "index" => ENABLED BuildLabelIndex
     /\ pc = "error" =>
          /\ err = "UnboundLocalError"
          /\ Range(all_image_paths) = Resolved
          /\ Len(all_image_paths) = Len(input_tree)
          /\ Len(all_images) = Len(input_tree)
          /\ {"output_path", "log_path"} \subseteq fs
     /\ "params.hdf5" \notin fs
     /\ "confusion_matrix.csv" \notin fs
     /\ X_train = <<>> /\ X_test = <<>> /\ y_train = <<>> /\ y_test = <<>>
     /\ epoch = 0 /\ model = 0 /\ ckpt = 0
     /\ predict_calls = 0 /\ events = <<>>

\* C9, witness: a run on a large tree with an unrecognised input_type has
\* ended in the error.
C9_Witness ==
  /\ input_type = "cifar"
  /\ pc = "error"
  /\ err = "UnboundLocalError"
  /\ Len(all_images) = MaxTree

\* C10: model.predict runs once, after the training loop has ended, with
\* the weights of the last executed epoch, never those of params.hdf5:
\* whenever the last epoch is not the epoch of lowest validation loss, as
\* after every early stop, the evaluated model is not the checkpoint.
C10_EvaluatesLastEpoch ==
  /\ predict_calls = (IF Evaluated THEN 1 ELSE 0)
  /\ ~Evaluated => (y_pred = <<>> /\ "confusion_matrix.csv" \notin fs)
  /\ Evaluated =>
       /\ (epoch = Epochs \/ stop_training)
       /\ predicted_with = epoch
       /\ ~FirstBest(epoch, epoch) => predicted_with # ckpt
       /\ stop_training => (~FirstBest(epoch, epoch) /\ predicted_with # ckpt)
       /\ FirstBest(ckpt, epoch)

\* C10, witness: after an early stop the evaluation ran with weights other
\* than the checkpoint's.
C10_Witness ==
  /\ pc = "done"
  /\ epoch < Epochs
  /\ stop_training
  /\ predicted_with = epoch
  /\ ckpt < epoch

=============================================================================
